---- MODULE Spec2Model ----
(***************************************************************************)
(* Extendible hash table of src/extendible_hash_table.cpp: a directory of  *)
(* shared bucket references with a global depth, fixed-capacity buckets    *)
(* with local depths, and the widen/split growth loop of Insert.           *)
(*                                                                         *)
(* The directory dir_ is a function from 0-based slot indices to bucket    *)
(* addresses; heap maps the addresses of the live buckets to their         *)
(* contents (a bucket is released when its last shared_ptr goes away).     *)
(* Every public operation runs under latch_. Find and Remove are one step; *)
(* Insert is InsertBegin (lock), one GrowStep per iteration of its while   *)
(* loop, and InsertFinish (upsert, unlock).                                *)
(***************************************************************************)
EXTENDS Integers, Sequences, FiniteSets, TLC

\* Bounds of the model.
MaxKey == 3
MaxValue == 2
MaxCapacity == 2
MaxDepth == 3
NumThreads == 2

Keys == 0..MaxKey
Values == 1..MaxValue
Capacities == 0..MaxCapacity
Threads == 1..NumThreads

\* The values thread t inserts: every thread writes values of its own, so
\* that an entry of the table tells which thread's Insert stored it.
ValuesOf(t) == {v \in Values : v % NumThreads = t % NumThreads}

VARIABLES
  bucket_size_,   \* ExtendibleHashTable::bucket_size_
  global_depth_,  \* ExtendibleHashTable::global_depth_
  num_buckets_,   \* ExtendibleHashTable::num_buckets_
  dir_,           \* ExtendibleHashTable::dir_, slot index -> bucket address
  heap,           \* bucket address -> Bucket object (size_, depth_, list_)
  latch_,         \* ExtendibleHashTable::latch_: 0 when free, else the holder
  pc,             \* per thread: "idle" or "insert" (inside Insert)
  local,          \* per thread: the arguments of the Insert in progress
  ret,            \* the outcome of the operation that returned last
  ref,            \* reference key -> value map driven by the same calls
  oracle,         \* what the reference map answered to the last call
  pre             \* the bucket of the key as it was when Insert was called

vars == <<bucket_size_, global_depth_, num_buckets_, dir_, heap, latch_, pc,
          local, ret, ref, oracle, pre>>

table == <<bucket_size_, global_depth_, num_buckets_, dir_, heap>>

--------------------------------------------------------------------------
\* Integer helpers for the C++ shift and mask expressions.

RECURSIVE Pow2(_)
Pow2(n) == IF n <= 0 THEN 1 ELSE 2 * Pow2(n - 1)

RECURSIVE BitAnd(_, _)
BitAnd(a, b) ==
  IF a = 0 \/ b = 0 THEN 0
  ELSE (a % 2) * (b % 2) + 2 * BitAnd(a \div 2, b \div 2)

\* std::hash<K>()(key) for the integral and pointer keys the table is
\* instantiated with: the value of the key itself.
Hash(key) == key

--------------------------------------------------------------------------
\* Bucket

\* Bucket::Bucket(array_size, depth): an empty list.
NewBucket(array_size, depth) ==
  [size_ |-> array_size, depth_ |-> depth, list_ |-> <<>>]

\* Bucket::IsFull
IsFull(b) == Len(b.list_) = b.size_

\* Bucket::GetDepth
GetDepth(b) == b.depth_

\* Bucket::IncrementDepth
IncrementDepth(b) == [b EXCEPT !.depth_ = @ + 1]

\* Bucket::GetItems
GetItems(b) == b.list_

\* The positions of the entries of a list whose key is key.
Matches(list, key) == {i \in 1..Len(list) : list[i][1] = key}

FirstMatch(list, key) ==
  CHOOSE i \in Matches(list, key) : \A j \in Matches(list, key) : i <= j

\* Bucket::Find: the first entry with the key; value is an out parameter
\* that is written only when the key is found (0 stands for "not written").
BucketFind(b, key) ==
  IF Matches(b.list_, key) = {}
  THEN [found |-> FALSE, value |-> 0]
  ELSE [found |-> TRUE, value |-> b.list_[FirstMatch(b.list_, key)][2]]

\* Bucket::Remove that reports a removal whether or not the key was there.
BucketRemoveAlwaysTrue(b, key) ==
  [found |-> TRUE,
   bucket |-> [b EXCEPT !.list_ = SelectSeq(b.list_, LAMBDA e : e[1] # key)]]

\* Bucket::Remove that erases from a copy of the list.
BucketRemoveNoErase(b, key) ==
  [found |-> Matches(b.list_, key) # {}, bucket |-> b]

\* Bucket::Remove that clears the list when it finds the key.
BucketRemoveClear(b, key) ==
  IF Matches(b.list_, key) = {}
  THEN [found |-> FALSE, bucket |-> b]
  ELSE [found |-> TRUE, bucket |-> [b EXCEPT !.list_ = <<>>]]

\* Bucket::Remove: list_.remove(pair) on the first entry with the key
\* erases every element equal to that (key, value) pair.
BucketRemove(b, key) ==
  IF Matches(b.list_, key) = {}
  THEN [found |-> FALSE, bucket |-> b]
  ELSE LET pair == b.list_[FirstMatch(b.list_, key)]
       IN [found |-> TRUE,
           bucket |-> [b EXCEPT !.list_ =
                          SelectSeq(b.list_, LAMBDA e : e # pair)]]

\* Bucket::Insert that already refuses when one place is left.
BucketInsertOffByOne(b, key, value) ==
  IF Len(b.list_) + 1 >= b.size_
  THEN [ok |-> FALSE, bucket |-> b]
  ELSE [ok |-> TRUE,
        bucket |-> [b EXCEPT !.list_ = Append(@, <<key, value>>)]]

\* Bucket::Insert: refuses when full, else emplace_back.
BucketInsert(b, key, value) ==
  IF IsFull(b)
  THEN [ok |-> FALSE, bucket |-> b]
  ELSE [ok |-> TRUE,
        bucket |-> [b EXCEPT !.list_ = Append(@, <<key, value>>)]]

--------------------------------------------------------------------------
\* Directory

\* ExtendibleHashTable::IndexOf
IndexOf(key) == BitAnd(Hash(key), Pow2(global_depth_) - 1)

\* dir_.size()
DirSize(d) == Cardinality(DOMAIN d)

\* The bucket object a slot refers to.
BucketAt(i) == heap[dir_[i]]

\* The bucket the key is routed to.
Target(key) == BucketAt(IndexOf(key))

\* std::make_shared<Bucket>: an address no live bucket has. The n-th
\* smallest free address is taken for the n-th allocation of a step.
FreeAddr(used) == CHOOSE a \in 1..(Cardinality(used) + 1) : a \notin used

\* ExtendibleHashTable::ExtendibleHashTable(bucket_size): one bucket of
\* depth 0 in the only slot. global_depth_ and num_buckets_ get their
\* initial values from the class declaration.
InitialGlobalDepth == 0
InitialNumBuckets == 1

NoCall == [key |-> 0, value |-> 0]
NoRet == [op |-> "none", key |-> 0, found |-> FALSE, value |-> 0]
NoAnswer == [found |-> FALSE, value |-> 0]
NoPre == [present |-> FALSE, count |-> 0]

Init ==
  /\ bucket_size_ \in Capacities
  /\ global_depth_ = InitialGlobalDepth
  /\ num_buckets_ = InitialNumBuckets
  /\ dir_ = [i \in {0} |-> 1]
  /\ heap = [a \in {1} |-> NewBucket(bucket_size_, 0)]
  /\ latch_ = 0
  /\ pc = [t \in Threads |-> "idle"]
  /\ local = [t \in Threads |-> NoCall]
  /\ ret = NoRet
  /\ ref = [k \in Keys |-> 0]
  /\ oracle = NoAnswer
  /\ pre = NoPre

\* The answer of the reference map to a lookup of key.
RefFind(key) == [found |-> ref[key] # 0, value |-> ref[key]]

\* ExtendibleHashTable::GetGlobalDepth
GetGlobalDepth(t) ==
  /\ pc[t] = "idle"
  /\ latch_ = 0
  /\ ret' = [op |-> "getglobaldepth", key |-> 0, found |-> TRUE,
             value |-> global_depth_]
  /\ oracle' = NoAnswer
  /\ UNCHANGED <<table, latch_, pc, local, ref, pre>>

\* What a read of dir_[dir_index] past the ends of the vector may hand
\* back as a depth when it does not fault: any int; one value that could
\* pass for a depth and one that could not stand for them.
GarbageDepths == {0, MaxDepth + 1}

\* ExtendibleHashTable::GetLocalDepthInternal: dir_[dir_index]->GetDepth()
\* with an unchecked vector subscript. The outcome is [found, value]: the
\* depth of the bucket of the slot, or, for an index outside the vector
\* (undefined behaviour), either a fault or any value.
GetLocalDepthInternal(dir_index) ==
  IF dir_index \in DOMAIN dir_
  THEN {[found |-> TRUE, value |-> GetDepth(BucketAt(dir_index))]}
  ELSE {[found |-> FALSE, value |-> 0]}
         \cup {[found |-> TRUE, value |-> v] : v \in GarbageDepths}

\* ExtendibleHashTable::GetLocalDepth, called with an index from one below
\* the first slot to one past the last. A fault is recorded in ret.
GetLocalDepth(t, dir_index) ==
  /\ pc[t] = "idle"
  /\ latch_ = 0
  /\ \E r \in GetLocalDepthInternal(dir_index) :
       ret' = [op |-> "getlocaldepth", key |-> dir_index,
               found |-> r.found, value |-> r.value]
  /\ oracle' = NoAnswer
  /\ UNCHANGED <<table, latch_, pc, local, ref, pre>>

\* ExtendibleHashTable::GetNumBuckets
GetNumBuckets(t) ==
  /\ pc[t] = "idle"
  /\ latch_ = 0
  /\ ret' = [op |-> "getnumbuckets", key |-> 0, found |-> TRUE,
             value |-> num_buckets_]
  /\ oracle' = NoAnswer
  /\ UNCHANGED <<table, latch_, pc, local, ref, pre>>

\* ExtendibleHashTable::Find
Find(t, key) ==
  /\ pc[t] = "idle"
  /\ latch_ = 0
  /\ LET r == BucketFind(Target(key), key)
     IN ret' = [op |-> "find", key |-> key, found |-> r.found,
                value |-> r.value]
  /\ oracle' = RefFind(key)
  /\ UNCHANGED <<table, latch_, pc, local, ref, pre>>

\* A Remove that always looks in the bucket of slot 0.
RemoveFromSlotZero(t, key) ==
  /\ pc[t] = "idle"
  /\ latch_ = 0
  /\ LET r == BucketRemove(BucketAt(0), key)
     IN /\ heap' = [heap EXCEPT ![dir_[0]] = r.bucket]
        /\ ret' = [op |-> "remove", key |-> key, found |-> r.found,
                   value |-> 0]
  /\ oracle' = [found |-> ref[key] # 0, value |-> 0]
  /\ ref' = [ref EXCEPT ![key] = 0]
  /\ UNCHANGED <<bucket_size_, global_depth_, num_buckets_, dir_, latch_,
                 pc, local, pre>>

\* ExtendibleHashTable::Remove
Remove(t, key) ==
  /\ pc[t] = "idle"
  /\ latch_ = 0
  /\ LET r == BucketRemove(Target(key), key)
     IN /\ heap' = [heap EXCEPT ![dir_[IndexOf(key)]] = r.bucket]
        /\ ret' = [op |-> "remove", key |-> key, found |-> r.found,
                   value |-> 0]
  /\ oracle' = [found |-> ref[key] # 0, value |-> 0]
  /\ ref' = [ref EXCEPT ![key] = 0]
  /\ UNCHANGED <<bucket_size_, global_depth_, num_buckets_, dir_, latch_,
                 pc, local, pre>>

\* An Insert that enters without waiting for the latch.
InsertBeginNoWait(t, key, value) ==
  /\ pc[t] = "idle"
  /\ latch_' = t
  /\ pc' = [pc EXCEPT ![t] = "insert"]
  /\ local' = [local EXCEPT ![t] = [key |-> key, value |-> value]]
  /\ pre' = [present |-> BucketFind(Target(key), key).found,
             count |-> Len(Target(key).list_)]
  /\ UNCHANGED <<table, ret, ref, oracle>>

\* ExtendibleHashTable::Insert, entry: takes the latch.
InsertBegin(t, key, value) ==
  /\ pc[t] = "idle"
  /\ latch_ = 0
  /\ latch_' = t
  /\ pc' = [pc EXCEPT ![t] = "insert"]
  /\ local' = [local EXCEPT ![t] = [key |-> key, value |-> value]]
  /\ pre' = [present |-> BucketFind(Target(key), key).found,
             count |-> Len(Target(key).list_)]
  /\ UNCHANGED <<table, ret, ref, oracle>>

\* The widening test with > in place of ==.
NeedsWidenLate(b) == GetDepth(b) > global_depth_

\* A widening on every iteration, whatever the depth of the bucket.
NeedsWidenAlways(b) == TRUE

\* Insert, line 95: the bucket to split uses every bit of the directory.
NeedsWiden(b) == GetDepth(b) = global_depth_

\* The split bit taken from a mask computed after IncrementDepth.
SplitBitAfterIncrement(key, mask) == BitAnd(Hash(key), mask * 2)

\* The split test with its two branches exchanged.
SplitBitInverted(key, mask) == IF BitAnd(Hash(key), mask) = 0 THEN 1 ELSE 0

\* Insert, line 112: the bit of the key's hash that the split examines.
SplitBit(key, mask) == BitAnd(Hash(key), mask)

\* A resize to three times the size.
WidenTriple(d) ==
  LET dir_num == DirSize(d)
  IN [i \in 0..(dir_num * 3 - 1) |-> d[i % dir_num]]

\* Insert, lines 96-101: the directory doubles; slot i + dir_num gets the
\* reference of slot i.
Widen(d) ==
  LET dir_num == DirSize(d)
  IN [i \in 0..(dir_num * 2 - 1) |-> IF i < dir_num THEN d[i]
                                                    ELSE d[i - dir_num]]

\* Insert, lines 111-118: the entries of the split bucket go, in list order,
\* to new_bucket1 when hash & mask is 0 and to new_bucket2 otherwise. ok
\* tells whether every Bucket::Insert call returned true.
RECURSIVE Redistribute(_, _, _, _)
Redistribute(items, mask, new_bucket1, new_bucket2) ==
  IF items = <<>>
  THEN [b1 |-> new_bucket1, b2 |-> new_bucket2, ok |-> TRUE]
  ELSE LET item == Head(items)
           hash_key == SplitBit(item[1], mask)
           r == IF hash_key = 0
                THEN BucketInsert(new_bucket1, item[1], item[2])
                ELSE BucketInsert(new_bucket2, item[1], item[2])
           rest == IF hash_key = 0
                   THEN Redistribute(Tail(items), mask, r.bucket, new_bucket2)
                   ELSE Redistribute(Tail(items), mask, new_bucket1, r.bucket)
       IN [rest EXCEPT !.ok = r.ok /\ @]

\* Re-pointing by the lowest bit of the slot index instead of the mask bit.
RepointLowestBit(d, bucket, mask, new_bucket1, new_bucket2) ==
  [i \in DOMAIN d |->
     IF d[i] = bucket
     THEN IF BitAnd(i, 1) = 0 THEN new_bucket1 ELSE new_bucket2
     ELSE d[i]]

\* Re-pointing that hands every slot of the split bucket to new_bucket1.
RepointAllToFirst(d, bucket, mask, new_bucket1, new_bucket2) ==
  [i \in DOMAIN d |-> IF d[i] = bucket THEN new_bucket1 ELSE d[i]]

\* Re-pointing with new_bucket1 and new_bucket2 exchanged.
RepointSwapped(d, bucket, mask, new_bucket1, new_bucket2) ==
  [i \in DOMAIN d |->
     IF d[i] = bucket
     THEN IF BitAnd(i, mask) = 0 THEN new_bucket2 ELSE new_bucket1
     ELSE d[i]]

\* Insert, lines 120-128: every slot that refers to the split bucket is
\* re-pointed by the mask bit of its index.
Repoint(d, bucket, mask, new_bucket1, new_bucket2) ==
  [i \in DOMAIN d |->
     IF d[i] = bucket
     THEN IF BitAnd(i, mask) = 0 THEN new_bucket1 ELSE new_bucket2
     ELSE d[i]]

\* The addresses the directory refers to: the buckets some shared_ptr of
\* dir_ keeps alive.
Referenced(d) == {d[i] : i \in DOMAIN d}

\* Insert, lines 91-129: one iteration of the growth loop. The model does
\* not follow a directory beyond MaxDepth; an Insert stopped there is one
\* whose loop never ends (BlockedNeverEnds).
GrowStep(t) ==
  /\ pc[t] = "insert"
  /\ latch_ = t
  /\ IsFull(Target(local[t].key))
  /\ LET index == IndexOf(local[t].key)
         bucket == dir_[index]
         widen == NeedsWiden(heap[bucket])
         dir1 == IF widen THEN Widen(dir_) ELSE dir_
         mask == Pow2(GetDepth(heap[bucket]))
         split == IncrementDepth(heap[bucket])
         new_bucket1 == FreeAddr(DOMAIN heap)
         new_bucket2 == FreeAddr(DOMAIN heap \cup {new_bucket1})
         parts == Redistribute(GetItems(split), mask,
                               NewBucket(bucket_size_, GetDepth(split)),
                               NewBucket(bucket_size_, GetDepth(split)))
         dir2 == Repoint(dir1, bucket, mask, new_bucket1, new_bucket2)
         heap2 == [a \in DOMAIN heap \cup {new_bucket1, new_bucket2} |->
                     IF a = new_bucket1 THEN parts.b1
                     ELSE IF a = new_bucket2 THEN parts.b2
                     ELSE IF a = bucket THEN split
                     ELSE heap[a]]
     IN /\ widen => global_depth_ < MaxDepth
        /\ global_depth_' = IF widen THEN global_depth_ + 1
                                     ELSE global_depth_
        /\ num_buckets_' = num_buckets_ + 1
        /\ dir_' = dir2
        /\ heap' = [a \in Referenced(dir2) |-> heap2[a]]
  /\ UNCHANGED <<bucket_size_, latch_, pc, local, ret, ref, oracle, pre>>

\* An overwrite that assigns to a copy of the entry.
OverwriteCopy(b, key, value) == b

\* An overwrite that appends a second entry for the key.
OverwriteAppend(b, key, value) ==
  [b EXCEPT !.list_ = Append(@, <<key, value>>)]

\* Insert, lines 133-138: the value of the first entry with the key is
\* overwritten in place.
Overwrite(b, key, value) ==
  [b EXCEPT !.list_[FirstMatch(b.list_, key)] = <<key, value>>]

\* Insert, lines 131-141: the loop is left, the key is updated or appended
\* and the latch is released on return.
InsertFinish(t) ==
  /\ pc[t] = "insert"
  /\ latch_ = t
  /\ ~IsFull(Target(local[t].key))
  /\ LET key == local[t].key
         value == local[t].value
         bucket == Target(key)
     IN /\ heap' = [heap EXCEPT ![dir_[IndexOf(key)]] =
                      IF Matches(GetItems(bucket), key) # {}
                      THEN Overwrite(bucket, key, value)
                      ELSE BucketInsert(bucket, key, value).bucket]
        /\ ret' = [op |-> "insert", key |-> key, found |-> FALSE,
                   value |-> value]
        /\ ref' = [ref EXCEPT ![key] = value]
  /\ oracle' = NoAnswer
  /\ pre' = NoPre
  /\ latch_' = 0
  /\ pc' = [pc EXCEPT ![t] = "idle"]
  /\ local' = [local EXCEPT ![t] = NoCall]
  /\ UNCHANGED <<bucket_size_, global_depth_, num_buckets_, dir_>>

Next ==
  \E t \in Threads :
    \/ \E k \in Keys : Find(t, k)
    \/ \E k \in Keys : Remove(t, k)
    \/ \E k \in Keys, v \in ValuesOf(t) : InsertBegin(t, k, v)
    \/ GrowStep(t)
    \/ InsertFinish(t)
    \/ GetGlobalDepth(t)
    \/ \E i \in -1..DirSize(dir_) : GetLocalDepth(t, i)
    \/ GetNumBuckets(t)

Spec == Init /\ [][Next]_vars

--------------------------------------------------------------------------
\* Properties

\* The slot indices, the low-order bits of a number, and where keys live.
Slots == DOMAIN dir_
LowBits(x, d) == BitAnd(x, Pow2(d) - 1)
SlotsOf(a) == {i \in Slots : dir_[i] = a}
Entries(a) == {heap[a].list_[n] : n \in 1..Len(heap[a].list_)}
Count(key) ==
  Cardinality(UNION {{<<a, n>> : n \in Matches(heap[a].list_, key)} :
                       a \in DOMAIN heap})
Stored(key) == Count(key) > 0
Lookup(key) == BucketFind(Target(key), key)

\* C4 (invariant I1): the directory has exactly 2^global_depth_ slots,
\* indexed 0 .. 2^global_depth_ - 1, before and after every operation and
\* between the iterations of the growth loop.
I1_DirectorySize ==
  /\ Slots = 0..(Pow2(global_depth_) - 1)
  /\ DirSize(dir_) = Pow2(global_depth_)

\* A table that widened twice and is at an operation boundary.
I1_Witness == latch_ = 0 /\ global_depth_ = 2 /\ DirSize(dir_) = 4

\* C5 (invariant I2): the local depth of the bucket of every slot is at
\* most the global depth.
I2_DepthOrdering ==
  \A i \in Slots : GetDepth(BucketAt(i)) <= global_depth_

\* Buckets of different local depths below and at the global depth.
I2_Witness ==
  /\ latch_ = 0
  /\ global_depth_ = 2
  /\ \E i, j \in Slots : /\ GetDepth(BucketAt(i)) = 1
                         /\ GetDepth(BucketAt(j)) = 2

\* C6 (invariant I3): a referenced bucket of local depth d is referenced
\* by exactly 2^(global_depth_ - d) slots, and they are exactly the slots
\* whose indices agree on their low-order d bits.
I3_SlotSharing ==
  \A a \in Referenced(dir_) :
    LET d == GetDepth(heap[a])
    IN /\ d <= global_depth_
       /\ Cardinality(SlotsOf(a)) = Pow2(global_depth_ - d)
       /\ \A i \in SlotsOf(a) :
            SlotsOf(a) = {j \in Slots : LowBits(j, d) = LowBits(i, d)}

\* A bucket shared by two slots next to buckets with one slot each.
I3_Witness ==
  /\ latch_ = 0
  /\ global_depth_ = 2
  /\ \E a, b \in Referenced(dir_) : /\ Cardinality(SlotsOf(a)) = 2
                                    /\ Cardinality(SlotsOf(b)) = 1
                                    /\ heap[a].list_ # <<>>

\* C7 (invariant I4): the hash of every entry of a bucket agrees with
\* every slot index of the bucket on the low-order local-depth bits, and
\* so every stored key is in the bucket IndexOf routes it to.
I4_EntryPlacement ==
  /\ \A a \in Referenced(dir_) : \A e \in Entries(a) : \A i \in SlotsOf(a) :
       LowBits(Hash(e[1]), GetDepth(heap[a])) = LowBits(i, GetDepth(heap[a]))
  /\ \A a \in DOMAIN heap : \A e \in Entries(a) : dir_[IndexOf(e[1])] = a

\* Entries in three buckets after splits that moved some of them.
I4_Witness ==
  /\ latch_ = 0
  /\ num_buckets_ >= 3
  /\ Cardinality({a \in Referenced(dir_) : heap[a].list_ # <<>>}) >= 3

\* C1 (round trip): once Insert(k, v) has returned and no Remove(k) or
\* other Insert(k, v') has returned since (ref[k] = v), a Find(k) at any
\* operation boundary yields (v, true), whatever widening and splitting
\* the inserts of other keys caused.
RoundTrip ==
  latch_ = 0 =>
    \A k \in Keys : ref[k] # 0 => Lookup(k) = [found |-> TRUE, value |-> ref[k]]

\* A key inserted while the table had one bucket is found with its value
\* after the directory widened twice and others keys were overwritten.
RoundTrip_Witness ==
  /\ latch_ = 0
  /\ global_depth_ = 2
  /\ num_buckets_ >= 3
  /\ ret.op = "find" /\ ret.found /\ ret.value = 2
  /\ \E k \in Keys : k # ret.key /\ ref[k] = 1

\* C2 (differential equivalence): every Find returns the (value, found) of
\* the reference map and every Remove returns its found flag.
Differential ==
  /\ ret.op = "find" => /\ ret.found = oracle.found
                        /\ ret.value = oracle.value
  /\ ret.op = "remove" => ret.found = oracle.found

\* Find and Remove of present and of absent keys on a table that split.
Differential_Witness ==
  /\ num_buckets_ >= 2
  /\ ret.op = "remove"
  /\ ret.found
  /\ \E k \in Keys : ref[k] # 0 /\ k # ret.key

\* The growth loop is progressed and left whenever it can be.
FairSpec ==
  /\ Spec
  /\ \A t \in Threads : WF_vars(GrowStep(t)) /\ WF_vars(InsertFinish(t))

\* The states in which the model stops an Insert because the directory
\* would widen beyond MaxDepth.
GrowthBlocked(t) ==
  /\ pc[t] = "insert"
  /\ latch_ = t
  /\ IsFull(Target(local[t].key))
  /\ NeedsWiden(Target(local[t].key))
  /\ global_depth_ = MaxDepth

\* In such a state the code's loop cannot end either: the target bucket is
\* full, every hash in it and the key's hash lie below 2^MaxDepth and are
\* equal, so every later split bit is 0 for all of them, new_bucket1 gets
\* all the entries and is again the full bucket of the key.
BlockedNeverEnds ==
  \A t \in Threads :
    GrowthBlocked(t) =>
      /\ Hash(local[t].key) < Pow2(MaxDepth)
      /\ \A n \in 1..Len(Target(local[t].key).list_) :
           Hash(Target(local[t].key).list_[n][1]) = Hash(local[t].key)

\* C3 (Insert terminates): on a table of capacity >= 1 every Insert that
\* was called returns.
InsertTerminates ==
  \A t \in Threads :
    (pc[t] = "insert" /\ bucket_size_ >= 1) ~> (pc[t] = "idle")

\* C8 (overwrite): an Insert of a key that was present when it was called
\* returns with the key stored once with the new value, in a bucket that
\* holds as many entries as the key's bucket held at the call.
OverwriteKeepsCount ==
  [][\A t \in Threads, k \in Keys, v \in Values :
       (InsertFinish(t) /\ local[t] = [key |-> k, value |-> v]
          /\ pre.present) =>
          /\ (Count(k) = 1)'
          /\ (Lookup(k).value = v)'
          /\ (Len(Target(k).list_))' = pre.count]_vars

\* C9 (idempotent removal): Remove of a key stored nowhere returns false
\* and changes nothing of the table; Remove of a stored key returns true
\* and leaves the key not found; a Remove(k) right after a Remove(k) that
\* returned true returns false.
IdempotentRemove ==
  [][\A t \in Threads, k \in Keys :
       Remove(t, k) =>
          /\ ~Stored(k) => (~ret'.found /\ UNCHANGED table)
          /\ Stored(k) => (ret'.found /\ (~Stored(k))' /\ (~Lookup(k).found)')
          /\ (ret.op = "remove" /\ ret.key = k /\ ret.found) => ~ret'.found
    ]_vars

\* A Remove that found its key in a table with several buckets, which a
\* second Remove of the same key can follow.
IdempotentRemove_Witness ==
  /\ latch_ = 0
  /\ ret.op = "remove" /\ ret.found
  /\ ~Stored(ret.key)
  /\ global_depth_ >= 1
  /\ \E k \in Keys : Stored(k)

\* C10 (misconfiguration): no bucket of capacity 0 exists and no Insert
\* runs on a table of capacity 0.
ZeroCapacityRejected ==
  /\ bucket_size_ >= 1
  /\ \A a \in DOMAIN heap : heap[a].size_ >= 1
  /\ \A t \in Threads : pc[t] = "insert" => bucket_size_ >= 1

\* C11 (out-of-range access): GetLocalDepth(i) returns the local depth of
\* the bucket of slot i for i in [0, 2^global_depth_), and for any other i
\* it signals an error and returns no depth.
OutOfRangeFailsLoudly ==
  [][\A t \in Threads, i \in -1..DirSize(dir_) :
       GetLocalDepth(t, i) =>
          IF 0 <= i /\ i < Pow2(global_depth_)
          THEN ret'.found /\ ret'.value = GetDepth(BucketAt(i))
          ELSE ~ret'.found]_vars

\* All calls have completed: no thread is inside an operation.
Quiescent == latch_ = 0 /\ \A t \in Threads : pc[t] = "idle"

\* C12 (concurrency safety): whenever all the calls issued by the threads
\* have completed, the table holds exactly the contents of the reference
\* map, which applied the same calls one after the other in the order in
\* which they returned (each key stored once with its value, or not at
\* all), and invariants I1 to I4 hold.
ConcurrencySafe ==
  Quiescent =>
    /\ \A k \in Keys : /\ Lookup(k) = RefFind(k)
                       /\ Count(k) = IF ref[k] = 0 THEN 0 ELSE 1
    /\ I1_DirectorySize
    /\ I2_DepthOrdering
    /\ I3_SlotSharing
    /\ I4_EntryPlacement

\* All calls have completed on a table that split, a Remove took a key
\* out, and every thread has an entry of its own in the table.
ConcurrencySafe_Witness ==
  /\ Quiescent
  /\ num_buckets_ >= 3
  /\ ret.op = "remove" /\ ret.found
  /\ \A t \in Threads : \E k \in Keys : Lookup(k).value \in ValuesOf(t)

\* C13 (whole-operation atomicity): a thread is inside Insert exactly
\* while it holds the latch, so at most one thread is inside an operation;
\* while a thread holds the latch, between the iterations of its growth
\* loop, no other thread enters an operation and no operation returns but
\* the holder's Insert.
OperationsAtomic ==
  /\ [](\A t \in Threads : pc[t] = "insert" <=> latch_ = t)
  /\ [](\A t, u \in Threads : (pc[t] = "insert" /\ pc[u] = "insert") => t = u)
  /\ [][\A t \in Threads :
          latch_ = t =>
            /\ \A u \in Threads \ {t} : pc[u] = "idle" /\ pc'[u] = "idle"
            /\ <<ret, oracle, ref>>' # <<ret, oracle, ref>> => pc'[t] = "idle"
     ]_vars

\* A thread is between two iterations of its growth loop, after a widening,
\* while the other threads are outside every operation.
OperationsAtomic_Witness ==
  \E t \in Threads :
    /\ pc[t] = "insert"
    /\ latch_ = t
    /\ global_depth_ = 2
    /\ IsFull(Target(local[t].key))
    /\ \E k \in Keys : Stored(k) /\ Lookup(k).value \notin ValuesOf(t)

\* The keys of the entries of a bucket, in list order.
KeysOf(b) == [n \in 1..Len(b.list_) |-> b.list_[n][1]]

\* The growth scenario after its first two inserts: capacity 2, no split
\* so far, and the keys with hashes 0b00 and 0b10 stored.
ScenarioTwoKeys ==
  /\ bucket_size_ = 2
  /\ num_buckets_ = 1
  /\ Stored(0)
  /\ Stored(2)

\* The scenario after the split that the third insert forced.
ScenarioSplit ==
  /\ bucket_size_ = 2
  /\ global_depth_ = 1
  /\ num_buckets_ = 2
  /\ KeysOf(BucketAt(0)) \in {<<0, 2>>, <<2, 0>>}
  /\ KeysOf(BucketAt(1)) = <<>>

\* C14 (growth scenario): with capacity 2, after the inserts of the keys
\* with hashes 0b00 and 0b10 the global depth is 0 and the one bucket holds
\* both entries; the insert of the key with hash 0b01 then takes one
\* iteration of the growth loop, which gives global depth 1 and two
\* buckets, and returns with all three keys found with their values.
GrowthScenario ==
  /\ [](ScenarioTwoKeys =>
          /\ global_depth_ = 0
          /\ DirSize(dir_) = 1
          /\ KeysOf(BucketAt(0)) \in {<<0, 2>>, <<2, 0>>}
          /\ IsFull(Target(1)))
  /\ [][\A t \in Threads, v \in Values :
          /\ (GrowStep(t) /\ ScenarioTwoKeys /\ local[t].key = 1) =>
                /\ ScenarioSplit'
                /\ (~IsFull(Target(1)))'
                /\ Lookup(0)' = Lookup(0)
                /\ Lookup(2)' = Lookup(2)
          /\ (InsertFinish(t) /\ ScenarioSplit
                /\ local[t] = [key |-> 1, value |-> v]) =>
                /\ global_depth_' = 1
                /\ num_buckets_' = 2
                /\ Lookup(0)' = Lookup(0) /\ Lookup(0).found
                /\ Lookup(2)' = Lookup(2) /\ Lookup(2).found
                /\ Lookup(1)' = [found |-> TRUE, value |-> v]
     ]_vars

\* The table right after the third insert of the scenario returned.
GrowthScenario_Witness ==
  /\ Quiescent
  /\ bucket_size_ = 2
  /\ global_depth_ = 1
  /\ num_buckets_ = 2
  /\ KeysOf(BucketAt(0)) = <<0, 2>>
  /\ KeysOf(BucketAt(1)) = <<1>>
  /\ ret.op = "insert" /\ ret.key = 1

\* C15 (bucket count): num_buckets_, which GetNumBuckets returns, is the
\* number of distinct buckets the slots refer to and at most the number of
\* slots; it is 1 at construction, grows by 1 in every iteration of the
\* growth loop and is changed by nothing else.
BucketCountAccurate ==
  /\ [](/\ num_buckets_ = Cardinality(Referenced(dir_))
        /\ num_buckets_ <= DirSize(dir_))
  /\ [][/\ \A t \in Threads :
             GetNumBuckets(t) => ret'.value = Cardinality(Referenced(dir_))
        /\ \A t \in Threads : GrowStep(t) => num_buckets_' = num_buckets_ + 1
        /\ num_buckets_' # num_buckets_ => \E t \in Threads : GrowStep(t)
       ]_vars

\* GetNumBuckets returned 3 on a table of 4 slots, two of which share a
\* bucket.
BucketCountAccurate_Witness ==
  /\ Quiescent
  /\ ret.op = "getnumbuckets"
  /\ ret.value = 3
  /\ DirSize(dir_) = 4
  /\ Cardinality(Referenced(dir_)) = 3

\* C16 (bucket well-formedness): every bucket the directory refers to
\* holds at most bucket_size_ entries, and no key has more than one entry
\* in the whole table.
BucketsWellFormed ==
  /\ \A a \in Referenced(dir_) : Len(heap[a].list_) <= bucket_size_
  /\ \A k \in Keys : Count(k) <= 1

\* A full bucket among three buckets with entries, every key stored.
BucketsWellFormed_Witness ==
  /\ Quiescent
  /\ bucket_size_ = 2
  /\ \E a \in Referenced(dir_) : Len(heap[a].list_) = 2
  /\ Cardinality({a \in Referenced(dir_) : heap[a].list_ # <<>>}) >= 3
  /\ \A k \in Keys : Stored(k)

\* The redistribution that the growth iteration of thread t performs.
SplitOutcome(t) ==
  LET b == Target(local[t].key)
  IN Redistribute(GetItems(IncrementDepth(b)), Pow2(GetDepth(b)),
                  NewBucket(bucket_size_, GetDepth(b) + 1),
                  NewBucket(bucket_size_, GetDepth(b) + 1))

\* C17 (no Bucket::Insert on a full bucket): in every growth iteration all
\* the Bucket::Insert calls of the redistribution return true and every
\* key keeps its entry; the final append of a key that is not in its
\* bucket returns true and stores the key.
BucketInsertSucceeds ==
  [][\A t \in Threads, k \in Keys, v \in Values :
       /\ GrowStep(t) =>
            /\ SplitOutcome(t).ok
            /\ \A j \in Keys : Count(j)' = Count(j)
       /\ (InsertFinish(t) /\ local[t] = [key |-> k, value |-> v]
             /\ Matches(GetItems(Target(k)), k) = {}) =>
            /\ BucketInsert(Target(k), k, v).ok
            /\ Lookup(k)' = [found |-> TRUE, value |-> v]
    ]_vars

\* An Insert appended a new key after a growth iteration had moved the
\* entries of a full bucket of two into the two new buckets.
BucketInsertSucceeds_Witness ==
  /\ Quiescent
  /\ bucket_size_ = 2
  /\ ret.op = "insert"
  /\ global_depth_ = 1
  /\ \E i, j \in Slots : /\ dir_[i] # dir_[j]
                         /\ Len(BucketAt(i).list_) = 1
                         /\ Len(BucketAt(j).list_) = 2
                         /\ GetDepth(BucketAt(i)) = GetDepth(BucketAt(j))
                         /\ KeysOf(BucketAt(j))[2] = ret.key

\* C18 (split partition): a growth iteration replaces the full bucket b of
\* local depth d by two fresh buckets lo and hi of depth d + 1; lo holds
\* the entries of b whose hash has splitBit = 1 << d clear and hi those
\* that have it set, in their order; every slot that referred to b refers
\* to lo if its index has splitBit clear and to hi otherwise; no slot
\* refers to b afterwards and the other buckets are as before.
SplitPartition ==
  [][\A t \in Threads :
       GrowStep(t) =>
         LET b == dir_[IndexOf(local[t].key)]
             d == GetDepth(heap[b])
             splitBit == Pow2(d)
             old == heap[b].list_
             n == DirSize(dir_)
         IN \E lo, hi \in DOMAIN heap' :
              /\ lo # hi
              /\ lo \notin DOMAIN heap
              /\ hi \notin DOMAIN heap
              /\ GetDepth(heap'[lo]) = d + 1
              /\ GetDepth(heap'[hi]) = d + 1
              /\ heap'[lo].size_ = bucket_size_
              /\ heap'[hi].size_ = bucket_size_
              /\ heap'[lo].list_ =
                   SelectSeq(old, LAMBDA e : BitAnd(Hash(e[1]), splitBit) = 0)
              /\ heap'[hi].list_ =
                   SelectSeq(old, LAMBDA e : BitAnd(Hash(e[1]), splitBit) # 0)
              /\ \A i \in DOMAIN dir_' :
                   dir_'[i] = IF dir_[i % n] = b
                              THEN IF BitAnd(i, splitBit) = 0 THEN lo ELSE hi
                              ELSE dir_[i % n]
              /\ b \notin Referenced(dir_')
              /\ b \notin DOMAIN heap'
              /\ \A a \in DOMAIN heap \ {b} : heap'[a] = heap[a]
    ]_vars

\* Insert(2) on a table of capacity 2 has just split the full bucket
\* [0, 1] of its key into lo = [0] and hi = [1].
SplitPartition_Witness ==
  \E t \in Threads :
    /\ pc[t] = "insert"
    /\ local[t].key = 2
    /\ pre.count = 2
    /\ num_buckets_ = 2
    /\ global_depth_ = 1
    /\ KeysOf(BucketAt(0)) = <<0>>
    /\ KeysOf(BucketAt(1)) = <<1>>

\* C19 (widening only when needed): global_depth_ and the number of slots
\* change only in a growth iteration whose target bucket is full and has
\* local depth = global depth. That iteration adds 1 to global_depth_ and
\* doubles the directory, slot i + old size getting the reference of slot
\* i (lines 96-101), which the split of the same iteration then re-points
\* for the slots of the split bucket only. An iteration that splits a
\* bucket of smaller local depth leaves global_depth_ and the number of
\* slots as they are.
WideningOnlyWhenNeeded ==
  [][/\ (global_depth_' # global_depth_ \/ DirSize(dir_') # DirSize(dir_)) =>
          \E t \in Threads :
            /\ GrowStep(t)
            /\ IsFull(Target(local[t].key))
            /\ GetDepth(Target(local[t].key)) = global_depth_
     /\ \A t \in Threads :
          GrowStep(t) =>
            LET b == dir_[IndexOf(local[t].key)]
                n == DirSize(dir_)
            IN IF GetDepth(heap[b]) = global_depth_
               THEN /\ global_depth_' = global_depth_ + 1
                    /\ DirSize(dir_') = 2 * n
                    /\ DOMAIN Widen(dir_) = 0..(2 * n - 1)
                    /\ \A i \in 0..(n - 1) :
                         /\ Widen(dir_)[i] = dir_[i]
                         /\ Widen(dir_)[i + n] = dir_[i]
                         /\ dir_[i] # b =>
                              dir_'[i] = dir_[i] /\ dir_'[i + n] = dir_[i]
                         /\ dir_[i] = b => dir_'[i] # dir_'[i + n]
               ELSE /\ global_depth_' = global_depth_
                    /\ DirSize(dir_') = n
    ]_vars

\* Insert(3) on a table of capacity 1 and global depth 2 has just split
\* the full bucket of local depth 1 that slots 1 and 3 shared, without
\* widening.
WideningOnlyWhenNeeded_Witness ==
  \E t \in Threads :
    /\ pc[t] = "insert"
    /\ local[t].key = 3
    /\ bucket_size_ = 1
    /\ pre = [present |-> FALSE, count |-> 1]
    /\ global_depth_ = 2
    /\ num_buckets_ = 4
    /\ Target(3).list_ = <<>>
    /\ KeysOf(BucketAt(1)) = <<1>>

\* C20 (no restructuring): Find changes nothing of the table; Remove(k)
\* changes nothing but the list of k's bucket, from which the entry of k
\* is gone: global depth, slots, slot-to-bucket mapping, local depths and
\* bucket count stay; and no step at all lowers global_depth_ or
\* num_buckets_.
NoRestructure ==
  [][/\ \A t \in Threads, k \in Keys : Find(t, k) => UNCHANGED table
     /\ \A t \in Threads, k \in Keys :
          Remove(t, k) =>
            /\ UNCHANGED <<bucket_size_, global_depth_, num_buckets_, dir_>>
            /\ DOMAIN heap' = DOMAIN heap
            /\ \A a \in DOMAIN heap :
                 /\ heap'[a].depth_ = heap[a].depth_
                 /\ heap'[a].size_ = heap[a].size_
                 /\ heap'[a].list_ =
                      SelectSeq(heap[a].list_, LAMBDA e : e[1] # k)
     /\ global_depth_' >= global_depth_
     /\ num_buckets_' >= num_buckets_
    ]_vars

\* A Remove took a key out of a bucket that keeps another entry, in a
\* table that had widened and split; the buckets are all still there.
NoRestructure_Witness ==
  /\ Quiescent
  /\ ret.op = "remove" /\ ret.found
  /\ Len(Target(ret.key).list_) = 1
  /\ bucket_size_ = 2
  /\ global_depth_ >= 1
  /\ num_buckets_ >= 2
  /\ \E a \in Referenced(dir_) : heap[a].list_ = <<>>

====
